---------------------------- MODULE Spec2Model ----------------------------
(***************************************************************************)
(* A model of linear_irl.py: value iteration over a finite MDP, the        *)
(* normaliser, the linear program built by linear_irl, and the             *)
(* orchestrator irl.                                                       *)
(*                                                                         *)
(* Numbers.  The program computes in float64.  The model computes in exact *)
(* rationals <<n, d>> (d > 0, lowest terms), extended with the IEEE        *)
(* specials the program can produce by dividing by zero: NaN = <<0, 0>>,   *)
(* +inf = <<1, 0>>, -inf = <<-1, 0>>.  Rounding is not modelled.           *)
(***************************************************************************)
EXTENDS Integers, Sequences, FiniteSets, TLC

VARIABLES
    pc,                 \* position in the function being run
    err,                \* the exception that ended the run, or "none"
    env,                \* [nS, nA, P]: P[s][a] is a list of [prob, next, reward]
    theta,              \* value_iteration: convergence threshold
    discount_factor,    \* value_iteration: gamma
    V,                  \* value_iteration: the value vector, updated in place
    delta,              \* value_iteration: delta of the sweep just run
    policy,             \* value_iteration: the returned policy matrix
    sweeps,             \* number of passes of the while loop run so far
    Vprev,              \* history: V as it was when the last sweep started
    vals,               \* normalise: the argument
    trans_probs,        \* linear_irl / irl: the tensor P[s][s'][a]
    target,             \* linear_irl: the policy argument
    gamma,              \* linear_irl / irl: gamma
    l1,                 \* linear_irl / irl: L1 weight
    r_max,              \* linear_irl / irl: reward cap and scale
    lp,                 \* linear_irl: [A, b, c], or NoValue before it is built
    sol,                \* linear_irl: what solvers.lp returned
    rewards,            \* linear_irl: rewards (line 121, then line 122); irl: line 128
    calls,              \* irl: the value_iteration calls made, in order
    values,             \* irl: values (line 135)
    recovered_rewards,  \* irl: recovered_rewards (line 137)
    recovered_values    \* irl: recovered_values (line 138)

vars == <<pc, err, env, theta, discount_factor, V, delta, policy, sweeps, Vprev,
          vals, trans_probs, target, gamma, l1, r_max, lp, sol, rewards,
          calls, values, recovered_rewards, recovered_values>>

viVars == <<env, theta, discount_factor, V, delta, policy, sweeps, Vprev>>
lpVars == <<trans_probs, target, gamma, l1, lp, sol>>
irlVars == <<calls, values, recovered_rewards, recovered_values>>

\* What a variable holds before the program assigns it.
NoValue == <<>>

-----------------------------------------------------------------------------
(* Bounds of the model.                                                    *)

\* Largest number of states of an environment.
MaxStates == 2
\* Largest length of a vector given to normalise on its own.
MaxLen == 3
\* Passes of the while loop of value_iteration after which the model stops
\* following a run that has not converged.
MaxSweeps == 6

-----------------------------------------------------------------------------
(* Rational arithmetic standing for float64 arithmetic.                    *)

Abs(x) == IF x < 0 THEN -x ELSE x

RECURSIVE GCD(_, _)
GCD(a, b) == IF b = 0 THEN a ELSE GCD(b, a % b)

\* The rational n/d, d # 0, in lowest terms with a positive denominator.
Q(n, d) ==
    LET g == GCD(Abs(n), Abs(d))
        s == IF d < 0 THEN -1 ELSE 1
    IN  <<(s * n) \div g, (s * d) \div g>>

Zero == <<0, 1>>
One == <<1, 1>>
NaN == <<0, 0>>
PosInf == <<1, 0>>
NegInf == <<-1, 0>>

IsFinite(x) == x[2] # 0
Sign(x) == IF x[1] > 0 THEN 1 ELSE IF x[1] < 0 THEN -1 ELSE 0

QNeg(x) == <<-x[1], x[2]>>

QAdd(x, y) ==
    IF IsFinite(x) /\ IsFinite(y)
    THEN LET g == GCD(x[2], y[2])
         IN  Q(x[1] * (y[2] \div g) + y[1] * (x[2] \div g), x[2] * (y[2] \div g))
    ELSE IF x = NaN \/ y = NaN THEN NaN
    ELSE IF ~IsFinite(x) /\ ~IsFinite(y) THEN (IF x = y THEN x ELSE NaN)
    ELSE IF IsFinite(x) THEN y ELSE x

QSub(x, y) == QAdd(x, QNeg(y))

QMul(x, y) ==
    IF IsFinite(x) /\ IsFinite(y)
    THEN LET g1 == GCD(Abs(x[1]), y[2])
             g2 == GCD(Abs(y[1]), x[2])
         IN  <<(x[1] \div g1) * (y[1] \div g2), (x[2] \div g2) * (y[2] \div g1)>>
    ELSE IF x = NaN \/ y = NaN \/ Sign(x) = 0 \/ Sign(y) = 0 THEN NaN
    ELSE <<Sign(x) * Sign(y), 0>>

\* float64 division: x/0 is nan for x = 0 and +-inf otherwise (numpy warns, it
\* does not raise).
QDiv(x, y) ==
    IF IsFinite(x) /\ IsFinite(y)
    THEN IF y[1] = 0 THEN <<Sign(x), 0>>
         ELSE QMul(x, Q(y[2], y[1]))
    ELSE IF x = NaN \/ y = NaN \/ (~IsFinite(x) /\ ~IsFinite(y)) THEN NaN
    ELSE IF IsFinite(x) THEN Zero
    ELSE <<Sign(x) * (IF Sign(y) < 0 THEN -1 ELSE 1), 0>>

\* x < y; every comparison with nan is false.
QLt(x, y) ==
    IF IsFinite(x) /\ IsFinite(y)
    THEN LET g == GCD(x[2], y[2])
         IN  x[1] * (y[2] \div g) < y[1] * (x[2] \div g)
    ELSE /\ x # NaN
         /\ y # NaN
         /\ x # y
         /\ (x = NegInf \/ y = PosInf)

QLe(x, y) == x # NaN /\ y # NaN /\ (x = y \/ QLt(x, y))

\* np.abs
QAbs(x) == <<Abs(x[1]), x[2]>>

\* Python's builtin max(a, b): b only when it is greater than a.
PyMax(a, b) == IF QLt(a, b) THEN b ELSE a

RECURSIVE SumOver(_, _)
\* The sum of f[i] over the finite set I of indices.
SumOver(I, f) ==
    IF I = {} THEN Zero
    ELSE LET i == CHOOSE j \in I : TRUE
         IN  QAdd(f[i], SumOver(I \ {i}, f))

-----------------------------------------------------------------------------
(* numpy reductions over a vector indexed 0..n-1.                          *)

RECURSIVE NpMaxFrom(_, _, _, _)
NpMaxFrom(v, n, i, best) ==
    IF i = n THEN best
    ELSE NpMaxFrom(v, n, i + 1, IF QLt(best, v[i]) THEN v[i] ELSE best)

\* np.max(v)
NpMax(v, n) == NpMaxFrom(v, n, 1, v[0])

RECURSIVE NpMinFrom(_, _, _, _)
NpMinFrom(v, n, i, best) ==
    IF i = n THEN best
    ELSE NpMinFrom(v, n, i + 1, IF QLt(v[i], best) THEN v[i] ELSE best)

\* np.min(v)
NpMin(v, n) == NpMinFrom(v, n, 1, v[0])

RECURSIVE NpArgmaxLastFrom(_, _, _, _)
NpArgmaxLastFrom(v, n, i, best) ==
    IF i = n THEN best
    ELSE NpArgmaxLastFrom(v, n, i + 1, IF QLe(v[best], v[i]) THEN i ELSE best)

\* A plausible slip: a later maximum replaces an equal earlier one.
NpArgmaxLast(v, n) == NpArgmaxLastFrom(v, n, 1, 0)

RECURSIVE NpArgmaxFrom(_, _, _, _)
NpArgmaxFrom(v, n, i, best) ==
    IF i = n THEN best
    ELSE NpArgmaxFrom(v, n, i + 1, IF QLt(v[best], v[i]) THEN i ELSE best)

\* np.argmax(v): the index of the first occurrence of the maximum.
NpArgmax(v, n) == NpArgmaxFrom(v, n, 1, 0)

-----------------------------------------------------------------------------
(* Environments.  env.P[s][a] is a list of transition tuples               *)
(* (prob, next_state, reward, done); done is never read by the program.    *)

States(e) == 0..(e.nS - 1)
Actions(e) == 0..(e.nA - 1)

\* Numbers of actions of the environments explored.
ActionCounts == {1, 2}
\* Rewards the environments pay.
RewardValues == {-1, 0, 1}

Half == Q(1, 2)

\* The environment with nS states and nA actions in which action a in state s
\* leads to nxt[s][a], a transition from s under a into t pays rw[s][a][t],
\* and, when slip holds, every action stays where it is with probability 1/2.
MakeEnv(nS, nA, nxt, rw, slip) ==
    [nS |-> nS, nA |-> nA,
     P |-> [s \in 0..(nS - 1) |-> [a \in 0..(nA - 1) |->
              IF slip
              THEN << [prob |-> Half, next |-> nxt[s][a],
                       reward |-> Q(rw[s][a][nxt[s][a]], 1)],
                      [prob |-> Half, next |-> s, reward |-> Q(rw[s][a][s], 1)] >>
              ELSE << [prob |-> One, next |-> nxt[s][a],
                       reward |-> Q(rw[s][a][nxt[s][a]], 1)] >>]]]

\* Rewards paid on arrival: entering state t pays arr[t].
OnArrival(nS, nA, arr) ==
    [s \in 0..(nS - 1) |-> [a \in 0..(nA - 1) |-> [t \in 0..(nS - 1) |-> arr[t]]]]

\* Rewards paid on leaving: action a in state s pays pay[s][a] unless it stays
\* in s.
OnLeaving(nS, nA, pay) ==
    [s \in 0..(nS - 1) |-> [a \in 0..(nA - 1) |->
        [t \in 0..(nS - 1) |-> IF t = s THEN 0 ELSE pay[s][a]]]]

\* Stochastic transitions are explored in the environments of one or two states.
SlipChoices(nS) == IF nS <= 2 THEN BOOLEAN ELSE {FALSE}

\* e is one of the environments explored.
IsEnv(e) ==
    \E nS \in 1..MaxStates, nA \in ActionCounts :
        \E nxt \in [0..(nS - 1) -> [0..(nA - 1) -> 0..(nS - 1)]],
           arr \in [0..(nS - 1) -> RewardValues],
           slip \in SlipChoices(nS) :
            e = MakeEnv(nS, nA, nxt, OnArrival(nS, nA, arr), slip)

-----------------------------------------------------------------------------
(* value_iteration (lines 8-67).                                           *)

\* The inner loop of one_step_lookahead (lines 37-38): A[a] starts at 0 and
\* each tuple adds prob * (reward + discount_factor * V[next_state]).
RECURSIVE LookaheadSum(_, _, _, _, _)
LookaheadSum(tuples, k, Vx, df, acc) ==
    IF k > Len(tuples) THEN acc
    ELSE LookaheadSum(tuples, k + 1, Vx, df,
            QAdd(acc, QMul(tuples[k].prob,
                           QAdd(tuples[k].reward, QMul(df, Vx[tuples[k].next])))))

\* one_step_lookahead(state, V) (lines 24-39).
OneStepLookahead(e, state, Vx, df) ==
    [a \in Actions(e) |-> LookaheadSum(e.P[state][a], 1, Vx, df, Zero)]

\* A plausible slip: delta overwritten by the last state's change.
TrackDeltaLast(d, best, old) == QAbs(QSub(best, old))

\* Line 51: delta = max(delta, np.abs(best_action_value - V[s])).
TrackDelta(d, best, old) == PyMax(d, QAbs(QSub(best, old)))

\* The for loop of lines 46-53 from state s on: V is updated in place, so the
\* lookahead of a later state reads the new values of the earlier ones.
RECURSIVE SweepFrom(_, _, _, _, _)
SweepFrom(e, df, s, Vx, d) ==
    IF s = e.nS THEN [V |-> Vx, delta |-> d]
    ELSE LET A == OneStepLookahead(e, s, Vx, df)
             best_action_value == NpMax(A, e.nA)
         IN  SweepFrom(e, df, s + 1, [Vx EXCEPT ![s] = best_action_value],
                       TrackDelta(d, best_action_value, Vx[s]))

\* One pass of the while loop body before its test (lines 44-53).
Sweep(e, df, Vx) == SweepFrom(e, df, 0, Vx, Zero)

\* A plausible slip: the loop also left when delta equals theta.
ConvergedOrEqual(d, th) == QLe(d, th)

\* Line 55: if delta < theta: break.
Converged(d, th) == QLt(d, th)

\* Lines 59-65: the policy puts 1.0 on np.argmax of the lookahead from V.
GreedyPolicy(e, df, Vx) ==
    [s \in States(e) |->
        LET best_action == NpArgmax(OneStepLookahead(e, s, Vx, df), e.nA)
        IN  [a \in Actions(e) |-> IF a = best_action THEN One ELSE Zero]]

\* Line 41: V = np.zeros(env.nS).
ZeroVector(n) == [s \in 0..(n - 1) |-> Zero]

-----------------------------------------------------------------------------
(* value_iteration, one step per pass of the while loop.                   *)

\* (discount_factor, theta) the program is meant to be called with.
ValidConfigs == { <<Half, Q(1, 4)>> }
\* The program validates nothing: gamma >= 1 and theta <= 0 are accepted too.
\* They are explored on the single-state environments.
InvalidConfigs == { <<One, Q(1, 4)>>, <<Half, Zero>>, <<One, Zero>> }

\* The (discount_factor, theta) explored for environment e.
ConfigsFor(e) == IF e.nS = 1 THEN ValidConfigs \cup InvalidConfigs ELSE ValidConfigs

IdleLp ==
    /\ vals = NoValue /\ trans_probs = NoValue /\ target = NoValue
    /\ gamma = NoValue /\ l1 = NoValue /\ r_max = NoValue /\ lp = NoValue
    /\ sol = NoValue /\ rewards = NoValue
IdleIrl ==
    /\ calls = <<>> /\ values = NoValue
    /\ recovered_rewards = NoValue /\ recovered_values = NoValue

InitVI ==
    /\ IsEnv(env)
    /\ \E cfg \in ConfigsFor(env) : discount_factor = cfg[1] /\ theta = cfg[2]
    /\ pc = "vi_start"
    /\ err = "none"
    /\ V = NoValue /\ delta = NoValue /\ policy = NoValue /\ Vprev = NoValue
    /\ sweeps = 0
    /\ IdleLp
    /\ IdleIrl

\* Lines 8-41: nothing is validated; V = zeros and the loop is entered.
ViStart ==
    /\ pc = "vi_start"
    /\ V' = ZeroVector(env.nS)
    /\ pc' = "vi_sweep"
    /\ UNCHANGED <<err, env, theta, discount_factor, delta, policy, sweeps, Vprev,
                   vals, r_max, rewards>>
    /\ UNCHANGED lpVars /\ UNCHANGED irlVars

\* Lines 42-56: one pass of while True.
ViSweep ==
    /\ pc = "vi_sweep"
    /\ sweeps < MaxSweeps
    /\ LET r == Sweep(env, discount_factor, V)
       IN  /\ V' = r.V
           /\ delta' = r.delta
           /\ pc' = IF Converged(r.delta, theta) THEN "vi_policy" ELSE "vi_sweep"
    /\ Vprev' = V
    /\ sweeps' = sweeps + 1
    /\ UNCHANGED <<err, env, theta, discount_factor, policy, vals, r_max, rewards>>
    /\ UNCHANGED lpVars /\ UNCHANGED irlVars

\* Lines 58-67.
ViPolicy ==
    /\ pc = "vi_policy"
    /\ policy' = GreedyPolicy(env, discount_factor, V)
    /\ pc' = "vi_done"
    /\ UNCHANGED <<err, env, theta, discount_factor, V, delta, sweeps, Vprev,
                   vals, r_max, rewards>>
    /\ UNCHANGED lpVars /\ UNCHANGED irlVars

NextVI == ViStart \/ ViSweep \/ ViPolicy

SpecVI == InitVI /\ [][NextVI]_vars

-----------------------------------------------------------------------------
(* normalise (lines 70-73), and its use at line 122.                       *)

\* A plausible slip: dividing by the maximum instead of the range.
NormaliseByMax(v, n) ==
    LET min_val == NpMin(v, n)
        max_val == NpMax(v, n)
    IN  [i \in 0..(n - 1) |-> QDiv(QSub(v[i], min_val), max_val)]

\* normalise(vals) on a numpy array: (vals - min_val) / (max_val - min_val),
\* element by element.  Nothing is raised when max_val = min_val: numpy
\* divides 0.0 by 0.0, warns, and yields nan.
Normalise(v, n) ==
    LET min_val == NpMin(v, n)
        max_val == NpMax(v, n)
    IN  [i \in 0..(n - 1) |-> QDiv(QSub(v[i], min_val), QSub(max_val, min_val))]

\* Line 122: normalise(rewards) * r_max.
RecoveredReward(v, n, rmax) ==
    LET normalised == Normalise(v, n)
    IN  [i \in 0..(n - 1) |-> QMul(normalised[i], rmax)]

\* Entries of the vectors given to normalise.
NormValues == { Q(-1, 1), Zero, Q(1, 3), One, Q(5, 2) }
\* Values of r_max explored: the defaults of linear_irl (1) and irl (5), and a
\* negative one, which the program accepts as well.
RMaxValues == { One, Q(5, 1), Q(-1, 1) }

VecLen(v) == Cardinality(DOMAIN v)

IdleVi ==
    /\ env = NoValue /\ theta = NoValue /\ discount_factor = NoValue
    /\ V = NoValue /\ delta = NoValue /\ policy = NoValue /\ Vprev = NoValue
    /\ sweeps = 0

InitNorm ==
    /\ \E n \in 1..MaxLen : vals \in [0..(n - 1) -> NormValues]
    /\ r_max \in RMaxValues
    /\ rewards = NoValue
    /\ pc = "norm_start"
    /\ err = "none"
    /\ IdleVi
    /\ trans_probs = NoValue /\ target = NoValue /\ gamma = NoValue
    /\ l1 = NoValue /\ lp = NoValue /\ sol = NoValue
    /\ IdleIrl

\* rewards = normalise(rewards) * r_max, on a numpy array.
NormCall ==
    /\ pc = "norm_start"
    /\ rewards' = RecoveredReward(vals, VecLen(vals), r_max)
    /\ pc' = "norm_done"
    /\ UNCHANGED <<err, vals, r_max>>
    /\ UNCHANGED viVars /\ UNCHANGED lpVars /\ UNCHANGED irlVars

NextNorm == NormCall

SpecNorm == InitNorm /\ [][NextNorm]_vars

-----------------------------------------------------------------------------
(* linear_irl (lines 76-123).                                              *)

\* Lines 127-133 of irl, the tensor: trans_probs[state][next_state][action] is
\* the probability of the first transition tuple of (state, action), the
\* other entries stay 0.
BuildTensor(e) ==
    [s \in States(e) |-> [s2 \in States(e) |-> [a \in Actions(e) |->
        IF e.P[s][a][1].next = s2 THEN e.P[s][a][1].prob ELSE Zero]]]

TensorStates(T) == Cardinality(DOMAIN T)
TensorActions(T) == Cardinality(DOMAIN T[0][0])

\* The sequence sq without its k-th element.
Without(sq, k) == [j \in 1..(Len(sq) - 1) |-> IF j < k THEN sq[j] ELSE sq[j + 1]]

RECURSIVE DetOf(_, _, _)
\* The determinant of the submatrix of M on the rows and columns listed.
DetOf(M, rows, cols) ==
    IF Len(rows) = 0 THEN One
    ELSE SumOver(1..Len(cols),
            [j \in 1..Len(cols) |->
                QMul(QMul(IF j % 2 = 1 THEN One ELSE QNeg(One), M[rows[1]][cols[j]]),
                     DetOf(M, Tail(rows), Without(cols, j)))])

Indices(n) == [j \in 1..n |-> j - 1]
IsSingular(M, n) == DetOf(M, Indices(n), Indices(n)) = Zero

\* np.linalg.inv(M) for a non-singular n x n matrix: the exact inverse.
MatInv(M, n) ==
    LET det == DetOf(M, Indices(n), Indices(n))
    IN  [r \in 0..(n - 1) |-> [c \in 0..(n - 1) |->
            QDiv(QMul(IF (r + c) % 2 = 0 THEN One ELSE QNeg(One),
                      DetOf(M, Without(Indices(n), c + 1), Without(Indices(n), r + 1))),
                 det)]]

\* np.identity(n) - g * trans_probs[:, :, a_opt]  (line 87).
SystemMatrix(T, n, g, a_opt) ==
    [r \in 0..(n - 1) |-> [c \in 0..(n - 1) |->
        QSub(IF r = c THEN One ELSE Zero, QMul(g, T[r][c][a_opt]))]]

\* -np.dot(trans_probs[i, :, a_opt] - trans_probs[i, :, a], tmp_inv)
\* (lines 92-95): a vector of length n.
PolicyCoefficients(T, n, i, a_opt, a, tmp_inv) ==
    [c \in 0..(n - 1) |->
        QNeg(SumOver(0..(n - 1),
                [k \in 0..(n - 1) |->
                    QMul(QSub(T[i][k][a_opt], T[i][k][a]), tmp_inv[k][c])]))]

\* A plausible slip: the stride of a state's block taken as number_of_actions.
PolicyRowWideStride(i, cnt, nA) == i * nA + cnt

\* Line 92: the row i * (number_of_actions - 1) + cnt.
PolicyRow(i, cnt, nA) == i * (nA - 1) + cnt

\* Lines 94-97: the row of the linked constraint.
LinkedRow(i, cnt, nS, nA) == nS * (nA - 1) + PolicyRow(i, cnt, nA)

\* Line 101 and on: the first row after the policy constraints.
BoundBase(nS, nA) == 2 * nS * (nA - 1)

\* cnt when the loop of line 90 reaches a: the actions before a other than a_opt.
CntAt(a, a_opt) == Cardinality({a2 \in 0..(a - 1) : a2 # a_opt})

\* The assignments into A made for state i and action a # a_opt (lines 92-97),
\* in program order.  by records the loop iteration that made them.
PolicyWrites(T, nS, nA, i, a_opt, a, tmp_inv) ==
    LET cnt == CntAt(a, a_opt)
        coef == PolicyCoefficients(T, nS, i, a_opt, a, tmp_inv)
        by == <<"policy", i, a>>
    IN  [k \in 1..nS |->
            [row |-> PolicyRow(i, cnt, nA), col |-> k - 1, val |-> coef[k - 1], by |-> by]]
        \o [k \in 1..nS |->
            [row |-> LinkedRow(i, cnt, nS, nA), col |-> k - 1, val |-> coef[k - 1], by |-> by]]
        \o << [row |-> LinkedRow(i, cnt, nS, nA), col |-> nS + i, val |-> One, by |-> by] >>

RECURSIVE ConcatAll(_, _, _)
\* f[lo] \o f[lo + 1] \o ... \o f[hi]
ConcatAll(f, lo, hi) == IF lo > hi THEN <<>> ELSE f[lo] \o ConcatAll(f, lo + 1, hi)

\* The loop of lines 85-98 for state i.
StateWrites(T, pol, nS, nA, g, i) ==
    LET a_opt == NpArgmax(pol[i], nA)
        tmp_inv == MatInv(SystemMatrix(T, nS, g, a_opt), nS)
    IN  ConcatAll([a \in 0..(nA - 1) |->
                      IF a # a_opt
                      THEN PolicyWrites(T, nS, nA, i, a_opt, a, tmp_inv)
                      ELSE <<>>],
                  0, nA - 1)

\* Lines 100-114: the assignments into A of the four loops after the policy
\* constraints.
BoundWrites(nS, nA) ==
    LET base == BoundBase(nS, nA)
    IN  [k \in 1..nS |->
            [row |-> base + (k - 1), col |-> k - 1, val |-> One, by |-> <<"r_max", k - 1>>]]
        \o [k \in 1..nS |->
            [row |-> base + nS + (k - 1), col |-> k - 1, val |-> QNeg(One),
             by |-> <<"nonneg", k - 1>>]]
        \o ConcatAll([i \in 0..(nS - 1) |->
              << [row |-> base + 2 * nS + i, col |-> i, val |-> One, by |-> <<"slack1", i>>],
                 [row |-> base + 2 * nS + i, col |-> 2 * nS + i, val |-> QNeg(One),
                  by |-> <<"slack1", i>>] >>], 0, nS - 1)
        \o ConcatAll([i \in 0..(nS - 1) |->
              << [row |-> base + 3 * nS + i, col |-> i, val |-> One, by |-> <<"slack2", i>>],
                 [row |-> base + 3 * nS + i, col |-> 2 * nS + i, val |-> QNeg(One),
                  by |-> <<"slack2", i>>] >>], 0, nS - 1)

\* Every assignment into A, in program order.
AllWrites(T, pol, nS, nA, g) ==
    ConcatAll([i \in 0..(nS - 1) |-> StateWrites(T, pol, nS, nA, g, i)], 0, nS - 1)
    \o BoundWrites(nS, nA)

\* The array that starts as zeros (line 81) and takes the assignments w in
\* order: an entry holds the last value assigned to it.
ApplyWrites(w, rows, cols) ==
    [r \in 0..(rows - 1) |-> [c \in 0..(cols - 1) |->
        LET hits == {k \in 1..Len(w) : w[k].row = r /\ w[k].col = c}
        IN  IF hits = {} THEN Zero
            ELSE w[CHOOSE k \in hits : \A k2 \in hits : k2 <= k].val]]

\* Lines 82, 102, 106: b is zeros but for r_max on the rows R_i <= r_max.
BuildB(nS, nA, rmax) ==
    [r \in 0..(2 * nS * (nA + 1) - 1) |->
        IF r >= BoundBase(nS, nA) /\ r < BoundBase(nS, nA) + nS THEN rmax ELSE Zero]

\* Lines 83, 116-118: c is 0 on R, -1 on u and l1 on z.
BuildC(nS, weight) ==
    [k \in 0..(3 * nS - 1) |->
        IF k < nS THEN Zero ELSE IF k < 2 * nS THEN QNeg(One) ELSE weight]

\* Lines 77-118: the linear program.  writes is the history of the assignments
\* into A.
BuildLP(T, pol, g, weight, rmax) ==
    LET nS == TensorStates(T)
        nA == TensorActions(T)
        w == AllWrites(T, pol, nS, nA, g)
    IN  [A |-> ApplyWrites(w, 2 * nS * (nA + 1), 3 * nS),
         b |-> BuildB(nS, nA, rmax),
         c |-> BuildC(nS, weight),
         writes |-> w]

\* Line 87 raises numpy.linalg.LinAlgError when the matrix of some state's
\* chosen action is singular.
SomeSingular(T, pol, g) ==
    \E i \in DOMAIN T :
        IsSingular(SystemMatrix(T, TensorStates(T), g,
                                NpArgmax(pol[i], TensorActions(T))),
                   TensorStates(T))

-----------------------------------------------------------------------------
(* solvers.lp (line 120): the external solver of                           *)
(*     minimise c.x  subject to  A.x <= b.                                 *)
(* It is opaque to the program.  The model lets it return any feasible     *)
(* point of a finite grid with status "optimal", and, when the program is  *)
(* infeasible, status "primal infeasible" with x = None, as cvxopt does.   *)
(* The grid holds the point x = 0, and A.0 <= b fails only when r_max < 0, *)
(* where R_i <= r_max and -R_i <= 0 have no common solution: the grid has  *)
(* no feasible point exactly when the program has none.                    *)

Dot(row, x) == SumOver(DOMAIN x, [k \in DOMAIN x |-> QMul(row[k], x[k])])

Feasible(prog, x) == \A r \in DOMAIN prog.A : QLe(Dot(prog.A[r], x), prog.b[r])

\* The point with reward block R, margins u = 0 and slacks z = |R|.
GridPoint(R, nS) ==
    [k \in 0..(3 * nS - 1) |->
        IF k < nS THEN R[k] ELSE IF k < 2 * nS THEN Zero ELSE QAbs(R[k - 2 * nS])]

\* The reward blocks of the grid: every entry is 0 or |r_max|.
RewardGrid(nS, rmax) == [0..(nS - 1) -> {Zero, QAbs(rmax)}]

\* What solvers.lp may return for prog.
SolverOutcomes(prog, nS, rmax) ==
    LET feasible == {R \in RewardGrid(nS, rmax) : Feasible(prog, GridPoint(R, nS))}
    IN  IF feasible = {}
        THEN {[status |-> "primal infeasible", x |-> NoValue]}
        ELSE {[status |-> "optimal", x |-> GridPoint(R, nS)] : R \in feasible}

-----------------------------------------------------------------------------
(* linear_irl, one step per stage.                                         *)

\* Largest number of actions of a tensor given to linear_irl.
MaxActions == 3
\* Numbers of states of the tensors given to linear_irl.
LpStateCounts == {1, 2}

\* (gamma, l1, r_max) given to linear_irl: the defaults of linear_irl with
\* gamma = 1/2 and, on the tensors of two actions, the l1 and r_max of irl, a
\* negative r_max, and gamma = 1, all of which the program accepts.
LpConfigs(nA) ==
    IF nA = 2
    THEN { <<Half, Q(10, 1), One>>, <<Half, Zero, Q(5, 1)>>,
           <<Half, Q(10, 1), Q(-1, 1)>>, <<One, Q(10, 1), One>> }
    ELSE { <<Half, Q(10, 1), One>> }

\* Tensors with entries 1/2 are explored with two actions.
LpSlipChoices(nA) == IF nA = 2 THEN BOOLEAN ELSE {FALSE}

\* The deterministic policies over nS states and nA actions, as matrices.
OneHot(nA, best) == [a \in 0..(nA - 1) |-> IF a = best THEN One ELSE Zero]
Policies(nS, nA) ==
    { [s \in 0..(nS - 1) |-> OneHot(nA, f[s])] : f \in [0..(nS - 1) -> 0..(nA - 1)] }

InitLP ==
    /\ \E nS \in LpStateCounts, nA \in 2..MaxActions :
        /\ \E nxt \in [0..(nS - 1) -> [0..(nA - 1) -> 0..(nS - 1)]],
              slip \in LpSlipChoices(nA) :
              trans_probs = BuildTensor(MakeEnv(nS, nA, nxt,
                                OnArrival(nS, nA, [s \in 0..(nS - 1) |-> 0]), slip))
        /\ target \in Policies(nS, nA)
        /\ \E cfg \in LpConfigs(nA) : gamma = cfg[1] /\ l1 = cfg[2] /\ r_max = cfg[3]
    /\ lp = NoValue /\ sol = NoValue /\ rewards = NoValue /\ vals = NoValue
    /\ pc = "lp_build"
    /\ err = "none"
    /\ IdleVi
    /\ IdleIrl

\* Lines 77-118.
LpBuild ==
    /\ pc = "lp_build"
    /\ IF SomeSingular(trans_probs, target, gamma)
       THEN /\ pc' = "error"
            /\ err' = "LinAlgError"
            /\ lp' = lp
       ELSE /\ pc' = "lp_solve"
            /\ err' = err
            /\ lp' = BuildLP(trans_probs, target, gamma, l1, r_max)
    /\ UNCHANGED <<vals, r_max, rewards, trans_probs, target, gamma, l1, sol>>
    /\ UNCHANGED viVars /\ UNCHANGED irlVars

\* Line 120.
LpSolve ==
    /\ pc = "lp_solve"
    /\ sol' \in SolverOutcomes(lp, TensorStates(trans_probs), r_max)
    /\ pc' = "lp_rewards"
    /\ UNCHANGED <<err, vals, r_max, rewards, trans_probs, target, gamma, l1, lp>>
    /\ UNCHANGED viVars /\ UNCHANGED irlVars

\* What a step of a function yields: a value, or an exception.
Returns(v) == [kind |-> "return", value |-> v, err |-> "none"]
Raises(e) == [kind |-> "raise", value |-> NoValue, err |-> e]

\* Line 121: sol['x'][:number_of_states].  Subscripting None raises TypeError.
RewardBlock(solution, nS) ==
    IF solution.x = NoValue
    THEN Raises("TypeError")
    ELSE Returns([k \in 0..(nS - 1) |-> solution.x[k]])

\* Lines 122-123.  When the solver's rewards are all equal the division is of
\* zeros by 0.0: it yields nan on a numpy array, and raises ZeroDivisionError
\* on a cvxopt matrix, which is what sol['x'] is sliced from.  Which happens is
\* the array type's doing, so the model allows both.
NormaliseOutcomes(r, nS, rmax) ==
    {Returns(RecoveredReward(r, nS, rmax))}
    \cup (IF NpMax(r, nS) = NpMin(r, nS) THEN {Raises("ZeroDivisionError")} ELSE {})

LpRewards ==
    /\ pc = "lp_rewards"
    /\ LET out == RewardBlock(sol, TensorStates(trans_probs))
       IN  /\ pc' = IF out.kind = "raise" THEN "error" ELSE "lp_normalise"
           /\ err' = out.err
           /\ rewards' = out.value
    /\ UNCHANGED <<vals, r_max>>
    /\ UNCHANGED lpVars /\ UNCHANGED viVars /\ UNCHANGED irlVars

LpNormalise ==
    /\ pc = "lp_normalise"
    /\ \E out \in NormaliseOutcomes(rewards, TensorStates(trans_probs), r_max) :
        /\ pc' = IF out.kind = "raise" THEN "error" ELSE "lp_done"
        /\ err' = out.err
        /\ rewards' = IF out.kind = "raise" THEN rewards ELSE out.value
    /\ UNCHANGED <<vals, r_max>>
    /\ UNCHANGED lpVars /\ UNCHANGED viVars /\ UNCHANGED irlVars

NextLP == LpBuild \/ LpSolve \/ LpRewards \/ LpNormalise

SpecLP == InitLP /\ [][NextLP]_vars

-----------------------------------------------------------------------------
(* value_iteration and linear_irl as whole calls, for irl.                 *)

RECURSIVE ViLoop(_, _, _, _, _)
\* The while loop of lines 42-56 from its n-th pass on: the V it ends with, or
\* NoValue when it is still running after MaxSweeps passes.
ViLoop(e, th, df, Vx, n) ==
    IF n > MaxSweeps THEN NoValue
    ELSE LET r == Sweep(e, df, Vx)
         IN  IF Converged(r.delta, th) THEN r.V ELSE ViLoop(e, th, df, r.V, n + 1)

\* value_iteration(env, theta, discount_factor) (lines 8-67): (policy, V).
ValueIteration(e, th, df) ==
    LET Vx == ViLoop(e, th, df, ZeroVector(e.nS), 1)
    IN  IF Vx = NoValue THEN NoValue
        ELSE [policy |-> GreedyPolicy(e, df, Vx), V |-> Vx]

\* linear_irl(trans_probs, policy, gamma, l1, r_max) (lines 76-123): what the
\* call may yield.
LinearIrlOutcomes(T, pol, g, weight, rmax) ==
    IF SomeSingular(T, pol, g) THEN {Raises("LinAlgError")}
    ELSE LET nS == TensorStates(T)
             prog == BuildLP(T, pol, g, weight, rmax)
         IN  UNION { LET r == RewardBlock(solution, nS)
                     IN  IF r.kind = "raise" THEN {r}
                         ELSE NormaliseOutcomes(r.value, nS, rmax)
                     : solution \in SolverOutcomes(prog, nS, rmax) }

-----------------------------------------------------------------------------
(* irl (lines 126-172).                                                    *)

\* Line 8: theta=0.001, discount_factor=0.9.
DefaultTheta == Q(1, 1000)
DefaultDiscount == Q(9, 10)

\* Lines 128-133: rewards[next_state] = reward, for every (state, action) in
\* the order of env.P: the last pair leading to a state sets its entry.
TrueRewards(e) ==
    [t \in States(e) |->
        LET into == {sa \in States(e) \X Actions(e) : e.P[sa[1]][sa[2]][1].next = t}
            last == CHOOSE sa \in into :
                        \A sb \in into :
                            sb[1] < sa[1] \/ (sb[1] = sa[1] /\ sb[2] <= sa[2])
        IN  IF into = {} THEN Zero ELSE e.P[last[1]][last[2]][1].reward]

\* (gamma, l1, r_max) given to irl: its defaults, and another gamma.
IrlConfigs == { <<Q(3, 10), Q(10, 1), Q(5, 1)>>, <<Half, Q(10, 1), Q(5, 1)>> }

\* The environments given to irl are deterministic and episodic: no
\* transition leads to a lower state and staying in a state pays nothing, so
\* the values are exact after a few sweeps.
IsEpisodicEnv(e) ==
    \E nS \in 1..MaxStates, nA \in 2..MaxActions :
        \E nxt \in [0..(nS - 1) -> [0..(nA - 1) -> 0..(nS - 1)]] :
            /\ \A s \in 0..(nS - 1), a \in 0..(nA - 1) : nxt[s][a] >= s
            /\ \E pay \in [0..(nS - 1) -> [0..(nA - 1) -> RewardValues]] :
                  /\ \A s \in 0..(nS - 1), a \in 0..(nA - 1) :
                        nxt[s][a] = s => pay[s][a] = 0
                  /\ e = MakeEnv(nS, nA, nxt, OnLeaving(nS, nA, pay), FALSE)

Init ==
    /\ IsEpisodicEnv(env)
    /\ \E cfg \in IrlConfigs : gamma = cfg[1] /\ l1 = cfg[2] /\ r_max = cfg[3]
    /\ pc = "irl_tensors"
    /\ err = "none"
    /\ theta = NoValue /\ discount_factor = NoValue
    /\ V = NoValue /\ delta = NoValue /\ policy = NoValue /\ Vprev = NoValue
    /\ sweeps = 0
    /\ vals = NoValue /\ trans_probs = NoValue /\ target = NoValue
    /\ lp = NoValue /\ sol = NoValue /\ rewards = NoValue
    /\ IdleIrl

\* Lines 127-133.
IrlTensors ==
    /\ pc = "irl_tensors"
    /\ trans_probs' = BuildTensor(env)
    /\ rewards' = TrueRewards(env)
    /\ pc' = "irl_reference"
    /\ UNCHANGED <<err, vals, r_max, target, gamma, l1, lp, sol>>
    /\ UNCHANGED viVars /\ UNCHANGED irlVars

\* Line 135: policy, values = value_iteration(env, discount_factor=gamma).
IrlReferenceVI ==
    /\ pc = "irl_reference"
    /\ LET res == ValueIteration(env, DefaultTheta, gamma)
       IN  /\ res # NoValue
           /\ policy' = res.policy
           /\ values' = res.V
    /\ calls' = Append(calls, [env |-> env, theta |-> DefaultTheta,
                               discount_factor |-> gamma])
    /\ pc' = "irl_linear_irl"
    /\ UNCHANGED <<err, vals, r_max, rewards, recovered_rewards, recovered_values,
                   env, theta, discount_factor, V, delta, sweeps, Vprev>>
    /\ UNCHANGED lpVars

\* Line 137: recovered_rewards = linear_irl(trans_probs, policy, gamma, l1, r_max).
IrlLinearIrl ==
    /\ pc = "irl_linear_irl"
    /\ \E out \in LinearIrlOutcomes(trans_probs, policy, gamma, l1, r_max) :
        /\ pc' = IF out.kind = "raise" THEN "error" ELSE "irl_comparison"
        /\ err' = out.err
        /\ recovered_rewards' = out.value
    /\ UNCHANGED <<vals, r_max, rewards, calls, values, recovered_values>>
    /\ UNCHANGED lpVars /\ UNCHANGED viVars

\* Line 138: _, recovered_values = value_iteration(env).
IrlComparisonVI ==
    /\ pc = "irl_comparison"
    /\ LET res == ValueIteration(env, DefaultTheta, DefaultDiscount)
       IN  /\ res # NoValue
           /\ recovered_values' = res.V
    /\ calls' = Append(calls, [env |-> env, theta |-> DefaultTheta,
                               discount_factor |-> DefaultDiscount])
    /\ pc' = "irl_plot"
    /\ UNCHANGED <<err, vals, r_max, rewards, values, recovered_rewards>>
    /\ UNCHANGED lpVars /\ UNCHANGED viVars

\* Lines 140-172: the four arrays are drawn; none is changed.
IrlPlot ==
    /\ pc = "irl_plot"
    /\ pc' = "irl_done"
    /\ UNCHANGED <<err, vals, r_max, rewards>>
    /\ UNCHANGED lpVars /\ UNCHANGED viVars /\ UNCHANGED irlVars

Next == IrlTensors \/ IrlReferenceVI \/ IrlLinearIrl \/ IrlComparisonVI \/ IrlPlot

Spec == Init /\ [][Next]_vars

-----------------------------------------------------------------------------
(* Properties of value_iteration.                                          *)

\* The expected one-step return of action a in state s against the values Vx:
\* the sum over the transition tuples of prob * (reward + df * Vx[next]).
ExpectedReturn(e, s, a, Vx, df) ==
    LET t == e.P[s][a]
    IN  SumOver(DOMAIN t,
                [k \in DOMAIN t |->
                    QMul(t[k].prob, QAdd(t[k].reward, QMul(df, Vx[t[k].next])))])

\* a maximises the expected return in state s.
IsMaximiser(e, s, a, Vx, df) ==
    \A a2 \in Actions(e) :
        QLe(ExpectedReturn(e, s, a2, Vx, df), ExpectedReturn(e, s, a, Vx, df))

\* The Bellman optimality backup of Vx at state s.
BellmanBackup(e, s, Vx, df) ==
    LET a == CHOOSE a1 \in Actions(e) : IsMaximiser(e, s, a1, Vx, df)
    IN  ExpectedReturn(e, s, a, Vx, df)

\* |V[s] - backup of V at s|.
BellmanResidual(e, s, Vx, df) == QAbs(QSub(Vx[s], BellmanBackup(e, s, Vx, df)))

\* The largest |x[s] - y[s]| over the states.
MaxChange(e, x, y) ==
    LET s == CHOOSE s1 \in States(e) :
                \A s2 \in States(e) :
                    QLe(QAbs(QSub(x[s2], y[s2])), QAbs(QSub(x[s1], y[s1])))
    IN  QAbs(QSub(x[s], y[s]))

\* C1: the returned policy is deterministic and greedy: every row holds one 1
\* and otherwise 0, and the 1 is at the lowest-index action that maximises the
\* one-step lookahead from the returned V.
C1_PolicyGreedyDeterministic ==
    pc = "vi_done" =>
        \A s \in States(env) :
            \E a \in Actions(env) :
                /\ policy[s][a] = One
                /\ \A a2 \in Actions(env) \ {a} : policy[s][a2] = Zero
                /\ IsMaximiser(env, s, a, V, discount_factor)
                /\ \A a2 \in 0..(a - 1) : ~IsMaximiser(env, s, a2, V, discount_factor)

\* A returned policy for a state where two actions tie for the maximum.
C1_Witness ==
    /\ pc = "vi_done"
    /\ env.nA = 2
    /\ \E s \in States(env) :
          /\ IsMaximiser(env, s, 0, V, discount_factor)
          /\ IsMaximiser(env, s, 1, V, discount_factor)
          /\ policy[s] = [a \in Actions(env) |-> IF a = 0 THEN One ELSE Zero]
    /\ \E s \in States(env) : ~IsMaximiser(env, s, 0, V, discount_factor)

ValidConfig == QLt(Zero, discount_factor) /\ QLt(discount_factor, One) /\ QLt(Zero, theta)

\* C2: with 0 < gamma < 1 and theta > 0 the sweep loop, started from V = 0,
\* terminates (no run is still in the loop after MaxSweeps passes), and the loop
\* is left only by a full sweep whose delta, the largest |new V[s] - old V[s]|
\* over the states, is below theta.
C2_SweepLoopTerminates ==
    [][(ValidConfig /\ pc = "vi_sweep")
        => /\ pc' = "vi_sweep" => sweeps' < MaxSweeps
           /\ pc' # "vi_sweep" =>
                /\ sweeps' = sweeps + 1
                /\ delta' = MaxChange(env, V', V)
                /\ QLt(MaxChange(env, V', V), theta)]_vars

\* A run that needed several sweeps to converge.
C2_Witness ==
    /\ pc = "vi_done"
    /\ ValidConfig
    /\ sweeps >= 3
    /\ sweeps < MaxSweeps

\* C3: the returned V is a Bellman fixed point within theta at every state,
\* although the sweep updates V in place.
C3_BellmanFixedPoint ==
    pc = "vi_done" =>
        \A s \in States(env) :
            QLt(BellmanResidual(env, s, V, discount_factor), theta)

\* A returned V whose last sweep still changed it, with a state whose value is
\* not exactly its backup, in an environment with more than one state.
C3_Witness ==
    /\ pc = "vi_done"
    /\ env.nS > 1
    /\ V # Vprev
    /\ \E s \in States(env) : BellmanResidual(env, s, V, discount_factor) # Zero

\* C9: called with gamma >= 1 or theta <= 0, value_iteration fails with
\* ConfigurationError instead of entering the sweep loop: no pass of the loop
\* is ever run, and the call does not end in any other way.
C9_ConfigurationError ==
    (~QLt(discount_factor, One) \/ ~QLt(Zero, theta)) =>
        /\ sweeps = 0
        /\ pc \notin {"vi_policy", "vi_done"}
        /\ pc = "error" => err = "ConfigurationError"

-----------------------------------------------------------------------------
(* Properties of normalise.                                                *)

AllEqual(v) == \A i, j \in DOMAIN v : v[i] = v[j]

\* C7: for a vector whose entries are not all equal and r_max > 0, the vector
\* normalise(v) * r_max has minimum 0 and maximum r_max, every entry lies in
\* [0, r_max], and the order of the entries is kept.
C7_NormalisedRange ==
    (pc = "norm_done" /\ ~AllEqual(vals) /\ QLt(Zero, r_max)) =>
        /\ DOMAIN rewards = DOMAIN vals
        /\ \A i \in DOMAIN vals : QLe(Zero, rewards[i]) /\ QLe(rewards[i], r_max)
        /\ \E i \in DOMAIN vals : rewards[i] = Zero
        /\ \E i \in DOMAIN vals : rewards[i] = r_max
        /\ \A i, j \in DOMAIN vals :
              QLe(vals[i], vals[j]) => QLe(rewards[i], rewards[j])

\* A rescaled vector with a negative minimum, a scale other than 1, and an
\* entry strictly between the ends.
C7_Witness ==
    /\ pc = "norm_done"
    /\ ~AllEqual(vals)
    /\ QLt(One, r_max)
    /\ \E i \in DOMAIN vals : QLt(vals[i], Zero)
    /\ \E i \in DOMAIN vals : QLt(Zero, rewards[i]) /\ QLt(rewards[i], r_max)

\* C8: when all entries of the vector are equal, normalisation fails with
\* DegenerateRewardError and no rescaled vector is returned.
C8_DegenerateRewardError ==
    (pc # "norm_start" /\ AllEqual(vals)) =>
        /\ pc = "error"
        /\ err = "DegenerateRewardError"
        /\ rewards = NoValue

-----------------------------------------------------------------------------
(* Properties of linear_irl.                                               *)

LpBuilt == pc \in {"lp_solve", "lp_rewards", "lp_normalise", "lp_done"}

\* The action the policy chooses at state i: the one its row puts 1 on.
Chosen(pol, i) == CHOOSE a \in DOMAIN pol[i] : pol[i][a] = One

\* The rows of A assigned by the loop iteration by, and the iterations that
\* assigned into row r.
RowsOf(w, by) == {w[k].row : k \in {k2 \in 1..Len(w) : w[k2].by = by}}
WritersOf(w, r) == {w[k].by : k \in {k2 \in 1..Len(w) : w[k2].row = r}}

\* x is -(P[i,:,a_opt] - P[i,:,a]) . (I - gamma P[:,:,a_opt])^-1, said without
\* the inverse: x . (I - gamma P[:,:,a_opt]) = -(P[i,:,a_opt] - P[i,:,a]).
IsPolicyCoefficient(x, T, nS, g, i, a_opt, a) ==
    \A c \in 0..(nS - 1) :
        SumOver(0..(nS - 1),
                [k \in 0..(nS - 1) |->
                    QMul(x[k], QSub(IF k = c THEN One ELSE Zero, QMul(g, T[k][c][a_opt])))])
        = QNeg(QSub(T[i][c][a_opt], T[i][c][a]))

\* C4: the policy constraints occupy exactly the first 2 nS (nA - 1) rows.
\* Every state i and action a other than the chosen one has exactly two rows,
\* both with the reward block -(P[i,:,a*] - P[i,:,a]) (I - gamma P[:,:,a*])^-1
\* and bound 0, one with zero u and z blocks and one with 1 on u_i only; no
\* other (i, a) and no reward-bound or slack constraint writes into them.
C4_PolicyConstraintRows ==
    LpBuilt =>
        LET nS == TensorStates(trans_probs)
            nA == TensorActions(trans_probs)
            w == lp.writes
            pairs == {ia \in (0..(nS - 1)) \X (0..(nA - 1)) : ia[2] # Chosen(target, ia[1])}
            rowsOf(ia) == RowsOf(w, <<"policy", ia[1], ia[2]>>)
        IN  /\ DOMAIN lp.A = 0..(2 * nS * (nA + 1) - 1)
            /\ UNION {rowsOf(ia) : ia \in pairs} = 0..(2 * nS * (nA - 1) - 1)
            /\ \A ia \in pairs :
                /\ Cardinality(rowsOf(ia)) = 2
                /\ \A r \in rowsOf(ia) :
                    /\ WritersOf(w, r) = {<<"policy", ia[1], ia[2]>>}
                    /\ lp.b[r] = Zero
                    /\ IsPolicyCoefficient(lp.A[r], trans_probs, nS, gamma,
                                           ia[1], Chosen(target, ia[1]), ia[2])
                /\ \E r1, r2 \in rowsOf(ia) :
                    /\ r1 # r2
                    /\ \A k \in nS..(3 * nS - 1) : lp.A[r1][k] = Zero
                    /\ \A k \in nS..(3 * nS - 1) :
                          lp.A[r2][k] = IF k = nS + ia[1] THEN One ELSE Zero

\* A program built for two states and three actions where a state's chosen
\* action is the middle one and some policy row is not zero.
C4_Witness ==
    /\ LpBuilt
    /\ TensorStates(trans_probs) = 2
    /\ TensorActions(trans_probs) = 3
    /\ Chosen(target, 1) = 1
    /\ Chosen(target, 0) # 1
    /\ \E r \in 0..7 : \E k \in 0..1 : lp.A[r][k] # Zero

\* C5: every state i has two slack rows with bound 0, R_i - z_i <= 0 with +1 on
\* R_i and -1 on z_i, and -R_i - z_i <= 0 with -1 on R_i and -1 on z_i.
C5_SlackRows ==
    LpBuilt =>
        LET nS == TensorStates(trans_probs)
            nA == TensorActions(trans_probs)
            base == 2 * nS * (nA - 1) + 2 * nS
            IsRow(r, i, onR) ==
                /\ lp.b[r] = Zero
                /\ \A k \in 0..(3 * nS - 1) :
                      lp.A[r][k] = IF k = i THEN onR
                                   ELSE IF k = 2 * nS + i THEN QNeg(One) ELSE Zero
        IN  \A i \in 0..(nS - 1) :
                /\ IsRow(base + i, i, One)
                /\ IsRow(base + nS + i, i, QNeg(One))

\* C10: when the solver reports the program infeasible, linear_irl fails with
\* IRLInfeasibleError, before the normalisation runs, and returns no rewards.
C10_IRLInfeasibleError ==
    (pc \in {"lp_normalise", "lp_done", "error"} /\ sol # NoValue
        /\ sol.status = "primal infeasible") =>
        /\ pc = "error"
        /\ err = "IRLInfeasibleError"
        /\ rewards = NoValue

-----------------------------------------------------------------------------
(* Properties of irl.                                                      *)

\* The environment e with every transition paying r[next_state] instead.
WithRewards(e, r) ==
    [nS |-> e.nS, nA |-> e.nA,
     P |-> [s \in States(e) |-> [a \in Actions(e) |->
              [k \in DOMAIN e.P[s][a] |->
                  [prob |-> e.P[s][a][k].prob, next |-> e.P[s][a][k].next,
                   reward |-> r[e.P[s][a][k].next]]]]]]

AllFinite(v) == \A k \in DOMAIN v : IsFinite(v[k])

\* C6: irl runs the reference value iteration, then linear_irl, then the
\* comparison value iteration, and the comparison is computed from the
\* recovered reward: it is given the environment paying the recovered reward,
\* and its result is a Bellman fixed point of that reward within its theta.
\* Stated for the runs in which linear_irl returned a reward free of nan.
C6_ComparisonUsesRecoveredReward ==
    (pc \in {"irl_plot", "irl_done"} /\ AllFinite(recovered_rewards)) =>
        /\ Len(calls) = 2
        /\ values # NoValue
        /\ calls[2].env = WithRewards(env, recovered_rewards)
        /\ \A s \in States(env) :
              QLt(BellmanResidual(WithRewards(env, recovered_rewards), s,
                                  recovered_values, calls[2].discount_factor),
                  calls[2].theta)

=============================================================================
